---- MODULE Spec2Model ----
(***************************************************************************)
(* Model of src/scraping/scrape_reviews_selenium.py: the per-series review *)
(* harvest (Scraper.scrape_reviews_for_series), the block parser, the      *)
(* pagination helper and the multi-series batch (main); and of             *)
(* src/pipeline.py: the phase sequence of run_full_pipeline.  The parser,  *)
(* the block locator, the pagination helper and the pipeline also have a   *)
(* specification of their own, in which arg holds the input and res the    *)
(* outcome.                                                                *)
(*                                                                         *)
(* A text is kept run-length encoded: a sequence of runs [c, n] where c is *)
(* "w" (non-blank characters other than '.'), "s" (whitespace: blank, tab, *)
(* CR, LF) or "d" (the character '.'), and n >= 1 is the run's length.     *)
(* Adjacent runs have different kinds.  Lengths, strip(), split()/join()   *)
(* and the test '"..." in text' are exact on this encoding.                *)
(***************************************************************************)
EXTENDS Integers, Sequences, FiniteSets, TLC

\* ---------------------------------------------------------------- constants
MAX_EMPTY_PAGES == 12
MAX_PAGES == 120
MIN_TEXT_LEN == 50
EXPAND_UNDER == 120
MARKER_UNDER == 400

\* ------------------------------------------------------------------- bounds
MaxTarget == 2
MaxAvail == 2
ContentPages == 1
MaxBlocks == 2
MaxDom == 2
NumSeries == 2

VARIABLES pc, target, session, reviews, page, consecutive_empty, dom, blocks,
          idx, reason, advanced, atFault, served, ret, si, listing, all_rows,
          arg, res, filtered, located

vars == <<pc, target, session, reviews, page, consecutive_empty, dom, blocks,
          idx, reason, advanced, atFault, served, ret, si, listing, all_rows,
          arg, res, filtered, located>>

\* --------------------------------------------------------------------- text
R(c, n) == [c |-> c, n |-> n]

RECURSIVE TLen(_)
TLen(t) == IF t = <<>> THEN 0 ELSE Head(t).n + TLen(Tail(t))

RECURSIVE LStrip(_)
LStrip(t) ==
    IF t = <<>> THEN <<>>
    ELSE IF Head(t).c = "s" THEN LStrip(Tail(t)) ELSE t

RECURSIVE RStrip(_)
RStrip(t) ==
    IF t = <<>> THEN <<>>
    ELSE IF t[Len(t)].c = "s" THEN RStrip(SubSeq(t, 1, Len(t) - 1)) ELSE t

Strip(t) == RStrip(LStrip(t))

HasMarker(t) == \E i \in 1..Len(t) : t[i].c = "d" /\ t[i].n >= 3

CollapseWs(t) == [i \in 1..Len(t) |-> IF t[i].c = "s" THEN R("s", 1) ELSE t[i]]

clean_review_text(t) == IF t = <<>> THEN <<>> ELSE Strip(CollapseWs(t))

\* ------------------------------------------------------------------- blocks
\* A block of the rendered page: id > 0 names the review it shows (0: a
\* container that is no review), text is what the body selectors read now,
\* full is what they read once the block's toggle has been clicked, ctl is the
\* toggle's selector ("none": there is none).  scores, tags and dates are the
\* block's score, label and date sub-elements (none on the listing's pages
\* modelled here; see El, Label and LabBlocks).
Block(id, text, full, ctl) ==
    [id |-> id, text |-> text, full |-> full, ctl |-> ctl,
     scores |-> <<>>, tags |-> <<>>, dates |-> <<>>]

Junk == { Block(0, <<R("w", 10)>>, <<R("w", 10)>>, "none"),
          Block(0, <<>>, <<>>, "none") }

ReviewKinds(id) ==
    { Block(id, <<R("w", 60)>>, <<R("w", 60)>>, "none"),
      Block(id, <<R("w", 1), R("s", 48), R("w", 1)>>,
                <<R("w", 1), R("s", 48), R("w", 1)>>, "none"),
      Block(id, <<R("w", 10), R("d", 3)>>, <<R("w", 600)>>, "a.js-readmore"),
      Block(id, <<R("w", 10), R("d", 3)>>, <<R("w", 600)>>, "span.read-more") }

None == [none |-> TRUE]


\* ------------------------------------------------------------ block parsing
\* a toggle that closes the block again when the block is open
ExpandTogglesBack(block, clicked) ==
    IF block.ctl # "none" /\ clicked
    THEN [block EXCEPT !.text = IF block.text = block.full THEN <<>> ELSE block.full]
    ELSE block

\* _expand_review_in_block: every toggle inside the block is clicked through a
\* script call whose failure is swallowed, then a script unhides what the block
\* hides (ctl ".hidden"); clicked says whether the click or the script took.
_expand_review_in_block(block, clicked) ==
    IF block.ctl # "none" /\ clicked THEN [block EXCEPT !.text = block.full]
    ELSE block

\* line 237 without its middle clause
NeedsExpandShortOnly(t) == t = <<>> \/ TLen(t) < EXPAND_UNDER

\* line 237
NeedsExpand(t) ==
    \/ t = <<>>
    \/ (HasMarker(t) /\ TLen(t) < MARKER_UNDER)
    \/ TLen(t) < EXPAND_UNDER

\* ---- score, lines 254-269.  scores lists, in the order of the four score
\* selectors, what find_element gives: found = FALSE when it raises, else toks
\* is innerText.split(), a token being [digit |-> tok.isdigit(), val |-> int(tok)];
\* int_ok = FALSE for a token that isdigit() accepts and int() refuses (a
\* superscript or circled digit): int(tok) raises ValueError.
El(found, content) == [found |-> found, toks |-> content]

Tok(digit, val) == [digit |-> digit, val |-> val, int_ok |-> TRUE]

SupTok == [digit |-> TRUE, val |-> 0, int_ok |-> FALSE]

\* line 255: score = None
NoScore == 0

\* line 265: int(tok) raised; nothing between it and the handler at line 305
ScoreRaised == -1

\* the first digit token, its value brought into 1..10
RECURSIVE FirstTokenClamped(_)
FirstTokenClamped(toks) ==
    IF toks = <<>> THEN NoScore
    ELSE IF Head(toks).digit /\ ~Head(toks).int_ok THEN ScoreRaised
    ELSE IF Head(toks).digit
         THEN (IF Head(toks).val < 1 THEN 1
               ELSE IF Head(toks).val > 10 THEN 10 ELSE Head(toks).val)
         ELSE FirstTokenClamped(Tail(toks))

RECURSIVE FirstScoreToken(_)
FirstScoreToken(toks) ==
    IF toks = <<>> THEN NoScore
    ELSE IF Head(toks).digit /\ ~Head(toks).int_ok THEN ScoreRaised
    ELSE IF Head(toks).digit /\ 1 <= Head(toks).val /\ Head(toks).val <= 10
         THEN Head(toks).val
         ELSE FirstScoreToken(Tail(toks))

RECURSIVE ScanScores(_)
ScanScores(scores) ==
    IF scores = <<>> THEN NoScore
    ELSE IF Head(scores).found /\ FirstScoreToken(Head(scores).toks) # NoScore
         THEN FirstScoreToken(Head(scores).toks)
         ELSE ScanScores(Tail(scores))

\* ---- recommendation, lines 271-286.  tags lists the label elements in
\* document order; a label's text is a sequence of phrases ("x": any other
\* words), <<>> when it strips to nothing; ok = FALSE when reading it raises.
Label(ok, text) == [ok |-> ok, text |-> text]

\* '"Recommended" in t' also holds of a text that says "Not Recommended"
Contains(t, phrase) ==
    \E i \in 1..Len(t) :
        \/ t[i] = phrase
        \/ phrase = "Recommended" /\ t[i] = "Not Recommended"

\* lines 279-284: the tests made on one label's text, in their order
TagOfRecommendedFirst(t) ==
    IF Contains(t, "Recommended") THEN "Recommended"
    ELSE IF Contains(t, "Mixed Feelings") THEN "Mixed Feelings"
    ELSE IF Contains(t, "Not Recommended") THEN "Not Recommended"
    ELSE ""

TagOf(t) ==
    IF Contains(t, "Not Recommended") THEN "Not Recommended"
    ELSE IF Contains(t, "Mixed Feelings") THEN "Mixed Feelings"
    ELSE IF Contains(t, "Recommended") THEN "Recommended"
    ELSE ""

RECURSIVE ScanTags(_)
ScanTags(tags) ==
    IF tags = <<>> THEN ""
    ELSE IF ~Head(tags).ok THEN ""
    ELSE IF Head(tags).text = <<>> \/ TagOf(Head(tags).text) = ""
         THEN ScanTags(Tail(tags))
         ELSE TagOf(Head(tags).text)

\* ---- date, lines 288-297.  dates lists, in the order of the four date
\* selectors, what find_element gives; toks is the stripped text ("": blank).
RECURSIVE ScanDates(_)
ScanDates(dates) ==
    IF dates = <<>> THEN ""
    ELSE IF Head(dates).found /\ Head(dates).toks # ""
         THEN Head(dates).toks
         ELSE ScanDates(Tail(dates))

\* lines 240-248: the text kept after the re-read
RereadKeepsFirst(t1, t2) == t1

Reread(t1, t2) == IF TLen(t2) > TLen(t1) THEN t2 ELSE t1

\* parse_review_block: the row it returns (None when the block is rejected) and
\* the block as the page holds it afterwards.
parse_review_block(block, clicked) ==
    LET t1 == Strip(block.text)
        need == NeedsExpand(t1)
        b2 == IF need THEN _expand_review_in_block(block, clicked) ELSE block
        t2 == Strip(b2.text)
        review_text == IF need THEN Reread(t1, t2) ELSE t1
    IN  [block |-> b2,
         row |-> IF review_text = <<>> \/ TLen(review_text) < MIN_TEXT_LEN
                 THEN None
                 ELSE IF ScanScores(block.scores) = ScoreRaised
                 THEN None
                 ELSE [review_text |-> clean_review_text(review_text),
                       user_score |-> ScanScores(block.scores),
                       recommendation |-> ScanTags(block.tags),
                       review_date |-> ScanDates(block.dates)]]

\* the blocks a page can hold, collapsed or expanded, and what the parser makes
\* of each (parse_review_block, tabulated)
AllBlocks ==
    LET bs == Junk \cup UNION { ReviewKinds(i) : i \in 1..MaxAvail }
    IN  bs \cup { [b EXCEPT !.text = b.full] : b \in bs }

Parsed == [b \in AllBlocks, clicked \in BOOLEAN |-> parse_review_block(b, clicked)]

\* ------------------------------------------------------------ the listing
\* What a page load can bring.  The first ContentPages pages hold at most
\* MaxBlocks blocks each, a block being a container that is no review or the
\* listing's next review (reviews are numbered in the order the listing serves
\* them, MaxAvail in all).  The later pages depend on the listing's shape:
\*   "ends"    they are empty (the listing is over);
\*   "padded"  each holds one container that is no review;
\*   "bare"    the listing has no review at all, every page is empty or holds
\*             one container that is no review.
Shapes == {"ends", "padded", "bare"}

Filler == Block(0, <<R("w", 10)>>, <<R("w", 10)>>, "none")

RECURSIVE PageContents(_, _)
PageContents(n, s) ==
    IF n = 0 THEN {<<>>}
    ELSE {<<b>> \o rest : b \in Junk, rest \in PageContents(n - 1, s)}
         \cup
         (IF s < MaxAvail
          THEN UNION { {<<b>> \o rest : rest \in PageContents(n - 1, s + 1)}
                       : b \in ReviewKinds(s + 1) }
          ELSE {})

\* the loads of one of the first pages, by the number of reviews already served
RichLoads == [s \in 0..MaxAvail |-> UNION { PageContents(n, s) : n \in 0..MaxBlocks }]

Loads(s, p) ==
    CASE listing = "bare" -> {<<>>, <<Filler>>}
      [] listing # "bare" /\ p <= ContentPages -> RichLoads[s]
      [] listing = "ends" /\ p > ContentPages -> {<<>>}
      [] listing = "padded" /\ p > ContentPages -> {<<Filler>>}

RECURSIVE CountReviews(_)
CountReviews(bs) ==
    IF bs = <<>> THEN 0
    ELSE (IF Head(bs).id > 0 THEN 1 ELSE 0) + CountReviews(Tail(bs))

\* click_all_read_more: each a.js-readmore anchor of the page is clicked, a
\* click that fails twice is skipped; the outcomes are the pages in which any
\* subset of those blocks shows its full text.
ReadMoreOutcomes(d) ==
    { [i \in 1..Len(d) |-> IF i \in S THEN [d[i] EXCEPT !.text = d[i].full] ELSE d[i]]
      : S \in SUBSET { i \in 1..Len(d) : d[i].ctl = "a.js-readmore" } }

\* ------------------------------------------------------------------ harvest
\* The locals of scrape_reviews_for_series and what the run has observed:
\* reason is the way the run left its loop, advanced whether _goto_next_page
\* was called, atFault the records held when an exception was raised, served
\* the number of reviews the listing has shown so far.
\* located: how many times _find_review_blocks has been called in this run
\* (counted up to MAX_PAGES + 1)
\* filtered: how many times _prepare_page_filters has been called in this run
\* (calls) and how each step of the call ended (steps; kept until the run
\* enters its loop)
NotFiltered == [calls |-> 0, steps |-> <<>>]

InitRun ==
    /\ target \in 1..MaxTarget
    /\ listing \in Shapes
    /\ session = "none"
    /\ reviews = <<>>
    /\ page = 1
    /\ consecutive_empty = 0
    /\ dom = <<>>
    /\ blocks = <<>>
    /\ idx = 1
    /\ reason = "none"
    /\ advanced = FALSE
    /\ atFault = <<>>
    /\ served = 0
    /\ ret = <<>>
    /\ filtered = NotFiltered
    /\ located = 0

\* an exception raised inside the try block (line 375) reaches line 430
Fault ==
    /\ pc' = "except"
    /\ atFault' = reviews

\* lines 369-371: the session is created outside the try block
GetDriver ==
    /\ pc = "get_driver"
    /\ \/ /\ session' = "open"
          /\ pc' = "open"
       \/ /\ session' = "none"
          /\ pc' = "raised"
    /\ reviews' = <<>>
    /\ page' = 1
    /\ consecutive_empty' = 0
    /\ UNCHANGED <<target, dom, blocks, idx, reason, advanced, atFault, served, ret,
                   si, listing, all_rows,
                   arg, res, filtered, located>>

\* lines 376-377: open the listing and wait for its blocks
OpenListing ==
    /\ pc = "open"
    /\ \/ /\ \E d \in Loads(served, 1) :
                /\ dom' = d
                /\ served' = served + CountReviews(d)
          /\ pc' = "filter_select"
          /\ UNCHANGED atFault
       \/ /\ Fault
          /\ UNCHANGED <<dom, served>>
    /\ UNCHANGED <<target, session, reviews, page, consecutive_empty, blocks, idx,
                   reason, advanced, ret, si, listing, all_rows, arg, res, filtered, located>>

\* _prepare_page_filters (called at line 378).  How a step ends: "done" (its
\* control was found and operated), "absent" (nothing to operate), "raises"
\* (an exception inside the step).
StepOutcomes == {"done", "absent", "raises"}

\* lines 88-108, 111-124, 127-138: each step is inside a try whose handler
\* passes, so no outcome leaves the step as an exception
StepEscapesOnRaise(outcome) == outcome = "raises"

StepEscapes(outcome) == FALSE

\* one step of _prepare_page_filters: from pc = at to pc = to; the call is
\* counted at its first step
FilterStep(at, to) ==
    /\ pc = at
    /\ \E o \in StepOutcomes :
          IF StepEscapes(o)
          THEN /\ Fault
               /\ filtered' = [calls |-> IF at = "filter_select" THEN filtered.calls + 1
                                         ELSE filtered.calls,
                               steps |-> <<>>]
          ELSE /\ pc' = to
               /\ filtered' = [calls |-> IF at = "filter_select" THEN filtered.calls + 1
                                         ELSE filtered.calls,
                               steps |-> Append(filtered.steps, o)]
               /\ UNCHANGED atFault
    /\ UNCHANGED <<target, session, reviews, page, consecutive_empty, dom, blocks,
                   idx, reason, advanced, served, ret, si, listing, all_rows,
                   arg, res, located>>

\* lines 87-108: the sort select
FilterSelect == FilterStep("filter_select", "filter_all")

\* lines 110-124: the 'All' link
FilterAll == FilterStep("filter_all", "filter_spoilers")

\* lines 126-138: the spoiler buttons, and the return
FilterSpoilers == FilterStep("filter_spoilers", "render")

\* lines 380-381: _force_render (which swallows its exceptions) and the delay
Render ==
    /\ pc = "render"
    /\ pc' = "while"
    /\ filtered' = [filtered EXCEPT !.steps = <<>>]
    /\ UNCHANGED <<target, session, reviews, page, consecutive_empty, dom, blocks,
                   idx, reason, advanced, atFault, served, ret, si, listing, all_rows,
                   arg, res, located>>

\* line 383: the loop condition
WhileCondOff(n, t, p) == n < t /\ p <= MAX_PAGES + 1

WhileCond(n, t, p) == n < t /\ p <= MAX_PAGES

WhileHead ==
    /\ pc = "while"
    /\ IF WhileCond(Len(reviews), target, page)
       THEN pc' = "expand" /\ UNCHANGED reason
       ELSE /\ pc' = "finally"
            /\ reason' = IF Len(reviews) >= target THEN "TargetReached"
                         ELSE "MaxPagesReached"
    /\ UNCHANGED <<target, session, reviews, page, consecutive_empty, dom, blocks,
                   idx, advanced, atFault, served, ret, si, listing, all_rows,
                   arg, res, filtered, located>>

\* lines 387-389: page-wide expansion (its find_elements is not guarded)
ExpandAll ==
    /\ pc = "expand"
    /\ \/ /\ dom' \in ReadMoreOutcomes(dom)
          /\ pc' = "find"
          /\ UNCHANGED atFault
       \/ /\ Fault
          /\ UNCHANGED dom
    /\ UNCHANGED <<target, session, reviews, page, consecutive_empty, blocks, idx,
                   reason, advanced, served, ret, si, listing, all_rows,
                   arg, res, filtered, located>>

\* lines 205-213: what each of the four XPATHS finds on page d, as handles in
\* page order.  Every block of the listing is a div of class review that holds
\* a text div (first query); it is no article and has not the old class
\* review-element; the last query finds the blocks that hold a js-readmore link.
\* the members of S among the handles i..n, in document order
RECURSIVE InOrder(_, _, _)
InOrder(S, i, n) ==
    IF i > n THEN <<>>
    ELSE (IF i \in S THEN <<i>> ELSE <<>>) \o InOrder(S, i + 1, n)

XPathResults(d) ==
    << InOrder(1..Len(d), 1, Len(d)),
       <<>>,
       <<>>,
       InOrder({i \in 1..Len(d) : d[i].ctl = "a.js-readmore"}, 1, Len(d)) >>

\* lines 214-218: the queries' results are looked at in order, the first that
\* is not empty is returned
RECURSIVE ConcatAll(_)
ConcatAll(results) ==
    IF results = <<>> THEN <<>> ELSE Head(results) \o ConcatAll(Tail(results))

RECURSIVE FirstNonEmpty(_)
FirstNonEmpty(results) ==
    IF results = <<>> THEN <<>>
    ELSE IF Head(results) # <<>> THEN Head(results)
    ELSE FirstNonEmpty(Tail(results))

\* _find_review_blocks: the handles of the blocks of the page, in page order
_find_review_blocks(d) == FirstNonEmpty(XPathResults(d))

\* line 396
StreakBreakOff(c) == c > MAX_EMPTY_PAGES

StreakBreak(c) == c >= MAX_EMPTY_PAGES

\* line 404: consecutive_empty = 0
StreakResetSkipped(c) == c

StreakReset(c) == 0

\* lines 392-404: locate the blocks; the empty-page branch up to its break or
\* its call of _goto_next_page
FindBlocks ==
    /\ pc = "find"
    /\ located' = IF located <= MAX_PAGES THEN located + 1 ELSE located
    /\ \/ /\ blocks' = _find_review_blocks(dom)
          /\ idx' = 1
          /\ UNCHANGED atFault
          /\ IF blocks' = <<>>
             THEN /\ consecutive_empty' = consecutive_empty + 1
                  /\ IF StreakBreak(consecutive_empty')
                     THEN pc' = "finally" /\ reason' = "EmptyPageStreak"
                     ELSE pc' = "advance" /\ UNCHANGED reason
             ELSE /\ consecutive_empty' = StreakReset(consecutive_empty)
                  /\ pc' = "parse"
                  /\ UNCHANGED reason
       \/ /\ Fault
          /\ UNCHANGED <<blocks, idx, consecutive_empty, reason>>
    /\ UNCHANGED <<target, session, reviews, page, dom, advanced, served, ret, si,
                   listing, all_rows,
                   arg, res, filtered>>

\* line 408
ForBreakNever(n, t) == FALSE

ForBreakOff(n, t) == n > t

ForBreak(n, t) == n >= t

\* lines 407-420: one turn of the loop over the located blocks
\* line 420: reviews.append(row)
AccumulateFront(rs, row) == <<row>> \o rs

Accumulate(rs, row) == Append(rs, row)

ParseBlock ==
    /\ pc = "parse"
    /\ IF idx > Len(blocks) \/ ForBreak(Len(reviews), target)
       THEN /\ pc' = "after"
            /\ UNCHANGED <<reviews, dom, idx>>
       ELSE \E clicked \in BOOLEAN :
              \E r \in {Parsed[dom[blocks[idx]], clicked]} :
              /\ dom' = [dom EXCEPT ![blocks[idx]] = r.block]
              /\ reviews' = IF r.row = None THEN reviews
                            ELSE Accumulate(reviews,
                                   [review_text |-> r.row.review_text,
                                    block_id |-> dom[blocks[idx]].id,
                                    page_number |-> page])
              /\ idx' = idx + 1
              /\ pc' = "parse"
    /\ UNCHANGED <<target, session, page, consecutive_empty, blocks, reason,
                   advanced, atFault, served, ret, si, listing, all_rows,
                   arg, res, filtered, located>>

\* line 422
AfterBreakNever(n, t) == FALSE

AfterBreakOff(n, t) == n > t

AfterBreak(n, t) == n >= t

\* lines 422-423
AfterParse ==
    /\ pc = "after"
    /\ IF AfterBreak(Len(reviews), target)
       THEN pc' = "finally" /\ reason' = "TargetReached"
       ELSE pc' = "advance" /\ UNCHANGED reason
    /\ UNCHANGED <<target, session, reviews, page, consecutive_empty, dom, blocks,
                   idx, advanced, atFault, served, ret, si, listing, all_rows,
                   arg, res, filtered, located>>

\* lines 353 and 362: the page number _goto_next_page returns
NextPageSame(p) == p

NextPageBack(p) == p - 1

NextPage(p) == p + 1

\* _goto_next_page, called at line 399 and at line 426, and the return to the
\* loop head.  Tier 1: a displayed 'More Reviews' link is clicked; the page
\* keeps its blocks and gains the next ones (progressive load) or is replaced
\* (the link navigates).  Tier 2: driver.get of ?p=page+1, which may raise.
GotoNextPage ==
    /\ pc = "advance"
    /\ advanced' = TRUE
    /\ \/ /\ \E d \in Loads(served, page + 1) :
                /\ \/ dom' = d
                   \/ /\ dom # <<>>
                      /\ d # <<>>
                      /\ Len(dom) + Len(d) <= MaxDom
                      /\ dom' = dom \o d
                /\ served' = served + CountReviews(d)
          /\ page' = NextPage(page)
          /\ pc' = "while"
          /\ UNCHANGED atFault
       \/ /\ Fault
          /\ UNCHANGED <<dom, served, page>>
    /\ UNCHANGED <<target, session, reviews, consecutive_empty, blocks, idx,
                   reason, ret, si, listing, all_rows,
                   arg, res, filtered, located>>

\* lines 430-431
Except ==
    /\ pc = "except"
    /\ reason' = "SessionError"
    /\ pc' = "finally"
    /\ UNCHANGED <<target, session, reviews, page, consecutive_empty, dom, blocks,
                   idx, advanced, atFault, served, ret, si, listing, all_rows,
                   arg, res, filtered, located>>

\* line 433: driver.quit()
QuitSkipped(s) == s

Quit(s) == "closed"

\* lines 432-433: the finally block; quit ends the session and may still raise
Finally ==
    /\ pc = "finally"
    /\ session' = Quit(session)
    /\ pc' \in {"return", "raised"}
    /\ UNCHANGED <<target, reviews, page, consecutive_empty, dom, blocks, idx,
                   reason, advanced, atFault, served, ret, si, listing, all_rows,
                   arg, res, filtered, located>>

\* line 436
ReturnValueEmptied(rs, why) == IF why = "SessionError" THEN <<>> ELSE rs

ReturnValue(rs, why) == rs

\* lines 435-436
Return ==
    /\ pc = "return"
    /\ ret' = ReturnValue(reviews, reason)
    /\ pc' = "returned"
    /\ UNCHANGED <<target, session, reviews, page, consecutive_empty, dom, blocks,
                   idx, reason, advanced, atFault, served, si, listing, all_rows,
                   arg, res, filtered, located>>

Init ==
    /\ pc = "get_driver"
    /\ si = 1
    /\ all_rows = <<>>
    /\ arg = <<>>
    /\ res = <<>>
    /\ InitRun

Next ==
    \/ GetDriver
    \/ OpenListing
    \/ FilterSelect
    \/ FilterAll
    \/ FilterSpoilers
    \/ Render
    \/ WhileHead
    \/ ExpandAll
    \/ FindBlocks
    \/ ParseBlock
    \/ AfterParse
    \/ GotoNextPage
    \/ Except
    \/ Finally
    \/ Return

\* One harvest run, from the call of scrape_reviews_for_series to its return
\* (pc = "returned") or to the exception it lets out (pc = "raised").
Spec == Init /\ [][Next]_vars

\* The run is one sequential thread: it takes its next step whenever it has one.
FairSpec == Spec /\ WF_vars(Next)

\* -------------------------------------------------------------------- main
\* lines 472-478: the loop over SERIES, up to the call of the harvest
MainCall ==
    /\ pc = "main"
    /\ si <= NumSeries
    /\ pc' = "get_driver"
    /\ target' \in 1..MaxTarget
    /\ listing' \in Shapes
    /\ session' = "none"
    /\ reviews' = <<>>
    /\ page' = 1
    /\ consecutive_empty' = 0
    /\ dom' = <<>>
    /\ blocks' = <<>>
    /\ idx' = 1
    /\ reason' = "none"
    /\ advanced' = FALSE
    /\ atFault' = <<>>
    /\ served' = 0
    /\ ret' = <<>>
    /\ filtered' = NotFiltered
    /\ located' = 0
    /\ UNCHANGED <<si, all_rows, arg, res>>

\* lines 479-483: the rows are saved and added to all_rows (kept here as the
\* number of rows of each series)
MainSave ==
    /\ pc = "returned"
    /\ all_rows' = Append(all_rows, Len(ret))
    /\ si' = si + 1
    /\ pc' = "main"
    /\ UNCHANGED <<target, session, reviews, page, consecutive_empty, dom, blocks,
                   idx, reason, advanced, atFault, served, ret, listing, arg, res, filtered, located>>

\* lines 486-488
MainEnd ==
    /\ pc = "main"
    /\ si > NumSeries
    /\ pc' = "exit"
    /\ UNCHANGED <<target, session, reviews, page, consecutive_empty, dom, blocks,
                   idx, reason, advanced, atFault, served, ret, si, listing, all_rows,
                   arg, res, filtered, located>>

\* line 478: main has no handler around the call, an exception that leaves
\* scrape_reviews_for_series ends main
MainUnhandled ==
    /\ pc = "raised"
    /\ pc' = "crashed"
    /\ UNCHANGED <<target, session, reviews, page, consecutive_empty, dom, blocks,
                   idx, reason, advanced, atFault, served, ret, si, listing, all_rows,
                   arg, res, filtered, located>>

\* before the first call the locals of a run do not exist yet: MainCall sets them
InitMain ==
    /\ pc = "main"
    /\ si = 1
    /\ all_rows = <<>>
    /\ arg = <<>>
    /\ res = <<>>
    /\ target = 1
    /\ listing = "ends"
    /\ session = "none"
    /\ reviews = <<>>
    /\ page = 1
    /\ consecutive_empty = 0
    /\ dom = <<>>
    /\ blocks = <<>>
    /\ idx = 1
    /\ reason = "none"
    /\ advanced = FALSE
    /\ atFault = <<>>
    /\ served = 0
    /\ ret = <<>>
    /\ filtered = NotFiltered
    /\ located = 0

NextMain ==
    \/ MainCall
    \/ GetDriver
    \/ OpenListing
    \/ FilterSelect
    \/ FilterAll
    \/ FilterSpoilers
    \/ Render
    \/ WhileHead
    \/ ExpandAll
    \/ FindBlocks
    \/ ParseBlock
    \/ AfterParse
    \/ GotoNextPage
    \/ Except
    \/ Finally
    \/ Return
    \/ MainSave
    \/ MainUnhandled
    \/ MainEnd

\* The batch: main and the harvest runs it makes, one series after the other.
SpecMain == InitMain /\ [][NextMain]_vars

\* ------------------------------------------------- parse_review_block alone
\* The parser applied to one block taken from a pool that holds sub-elements of
\* every kind, up to MaxParses times in a row (the harvest parses a block again
\* each time a later pass over the page finds it again, lines 407-413).
MaxLabels == 2
MaxParses == 2

\* the harvest's variables while no harvest runs
NoRun ==
    /\ si = 1
    /\ all_rows = <<>>
    /\ target = 1
    /\ listing = "ends"
    /\ session = "none"
    /\ reviews = <<>>
    /\ page = 1
    /\ consecutive_empty = 0
    /\ dom = <<>>
    /\ blocks = <<>>
    /\ idx = 1
    /\ reason = "none"
    /\ advanced = FALSE
    /\ atFault = <<>>
    /\ served = 0
    /\ ret = <<>>
    /\ filtered = NotFiltered
    /\ located = 0

runVars == <<target, session, reviews, page, consecutive_empty, dom, blocks, idx,
             reason, advanced, atFault, served, ret, si, listing, all_rows,
             filtered, located>>

\* bodies: complete texts, texts cut short with and without the marker "...",
\* an empty first read, a text that is all but blank, a complete text that
\* still has a toggle, texts just long enough not to be expanded, a toggle
\* that folds the text up
LabBodies ==
    { Block(1, <<R("w", 60)>>, <<R("w", 60)>>, "none"),
      Block(1, <<R("w", 10)>>, <<R("w", 10)>>, "none"),
      Block(1, <<R("w", 60)>>, <<R("w", 60)>>, "a.js-readmore"),
      Block(1, <<R("w", 600), R("d", 3)>>, <<R("w", 600), R("d", 3)>>, "a.js-readmore"),
      Block(1, <<R("w", 10), R("d", 3)>>, <<R("w", 600)>>, "a.js-readmore"),
      Block(1, <<R("w", 10), R("d", 3)>>, <<R("w", 300), R("s", 2), R("w", 298)>>,
            "span.read-more"),
      Block(1, <<R("w", 57), R("d", 3)>>, <<R("w", 600)>>, "a.js-readmore"),
      Block(1, <<R("w", 200), R("d", 3)>>, <<R("w", 600)>>, "a.js-readmore"),
      Block(1, <<R("w", 10), R("d", 3)>>, <<R("w", 10), R("d", 3)>>, "none"),
      Block(1, <<R("w", 100)>>, <<R("w", 600)>>, "a.js-readmore"),
      Block(1, <<R("w", 100)>>, <<R("w", 600)>>, ".hidden"),
      Block(1, <<R("w", 120)>>, <<R("w", 600)>>, "a.js-readmore"),
      Block(1, <<R("w", 397), R("d", 3)>>, <<R("w", 600)>>, "a.js-readmore"),
      Block(1, <<R("w", 60)>>, <<R("w", 20)>>, "a.read-more"),
      Block(1, <<>>, <<R("w", 600)>>, "a.js-readmore") }

LabScores ==
    { <<>>,
      <<El(TRUE, <<Tok(TRUE, 7)>>)>>,
      <<El(FALSE, <<>>), El(TRUE, <<Tok(FALSE, 0), Tok(TRUE, 11), Tok(TRUE, 0),
                                   Tok(TRUE, 10), Tok(TRUE, 3)>>)>>,
      <<El(TRUE, <<Tok(TRUE, 2024)>>), El(TRUE, <<>>), El(TRUE, <<Tok(TRUE, 1)>>)>>,
      <<El(TRUE, <<Tok(TRUE, 7), SupTok>>)>>,
      <<El(TRUE, <<Tok(FALSE, 0), SupTok, Tok(TRUE, 7)>>)>> }

LabLabels ==
    { Label(TRUE, <<>>),
      Label(TRUE, <<"x">>),
      Label(TRUE, <<"Recommended">>),
      Label(TRUE, <<"Mixed Feelings">>),
      Label(TRUE, <<"Not Recommended">>),
      Label(TRUE, <<"Recommended", "x", "Mixed Feelings">>),
      Label(FALSE, <<>>) }

RECURSIVE LabelLists(_)
LabelLists(n) ==
    IF n = 0 THEN {<<>>}
    ELSE LabelLists(n - 1)
         \cup {Append(ls, l) : ls \in {x \in LabelLists(n - 1) : Len(x) = n - 1},
                               l \in LabLabels}

LabDates ==
    { <<>>,
      <<El(TRUE, "Jan 1, 2024")>>,
      <<El(FALSE, ""), El(TRUE, ""), El(TRUE, "Feb 2, 2024"), El(TRUE, "Mar 3, 2024")>> }

LabBlocks ==
    { [b EXCEPT !.scores = s, !.tags = t, !.dates = d] :
        b \in LabBodies, s \in LabScores, t \in LabelLists(MaxLabels), d \in LabDates }

InitParse ==
    /\ pc = "parse_review_block"
    /\ arg \in {[block0 |-> b, block |-> b] : b \in LabBlocks}
    /\ res = <<>>
    /\ NoRun

\* line 413: data = self.parse_review_block(b); res keeps what each call
\* returned, whether its toggle click took and the block it left behind
ParseCall ==
    /\ pc = "parse_review_block"
    /\ Len(res) < MaxParses
    /\ \E clicked \in BOOLEAN :
         \E r \in {parse_review_block(arg.block, clicked)} :
            /\ res' = Append(res, [row |-> r.row, clicked |-> clicked,
                                   before |-> arg.block, block |-> r.block])
            /\ arg' = [arg EXCEPT !.block = r.block]
    /\ UNCHANGED <<pc, runVars>>

NextParse == ParseCall

SpecParse == InitParse /\ [][NextParse]_vars

\* ------------------------------------------------- _find_review_blocks alone
\* The four queries' results are free: each is a set of the page's elements,
\* MaxElems in all, listed in document order.
MaxElems == 3

QueryResults == {InOrder(S, 1, MaxElems) : S \in SUBSET (1..MaxElems)}

InitLocate ==
    /\ pc = "_find_review_blocks"
    /\ arg \in [1..4 -> QueryResults]
    /\ res = <<>>
    /\ NoRun

\* line 392: blocks = self._find_review_blocks(driver)
LocateCall ==
    /\ pc = "_find_review_blocks"
    /\ res' = FirstNonEmpty(arg)
    /\ pc' = "located"
    /\ UNCHANGED <<arg, runVars>>

NextLocate == LocateCall

SpecLocate == InitLocate /\ [][NextLocate]_vars

\* ------------------------------------------------------ _goto_next_page alone
\* What the page offers when _goto_next_page is called: whether find_elements
\* returns (find_ok), the 'More Reviews' links it returns, each with what
\* is_displayed gives (shown: "yes", "no", "raises") and how its click ends
\* (click: "ok", "js" when only the script click works, "raises" when both
\* fail), and whether driver.get returns (get_ok).
MaxLinks == 2
MaxFrom == 3

LinkKinds == [shown : {"yes", "no", "raises"}, click : {"ok", "js", "raises"}]

RECURSIVE LinkLists(_)
LinkLists(n) ==
    IF n = 0 THEN {<<>>}
    ELSE LinkLists(n - 1)
         \cup {Append(ls, l) : ls \in {x \in LinkLists(n - 1) : Len(x) = n - 1},
                               l \in LinkKinds}

\* lines 342-355: TRUE when a displayed link was clicked; an exception on the
\* way ends the tier (except Exception: pass)
RECURSIVE ClickMoreReviews(_)
ClickMoreReviews(links) ==
    IF links = <<>> THEN FALSE
    ELSE IF Head(links).shown = "raises" THEN FALSE
    ELSE IF Head(links).shown = "no" THEN ClickMoreReviews(Tail(links))
    ELSE Head(links).click # "raises"

\* line 357: the page number put in the URL
FallbackParamSame(p) == p

FallbackParam(p) == p + 1

\* line 353: the return that ends the call after a click, so that line 357 is
\* reached only when tier 1 made none
FallsBackAlways(clicked) == TRUE

FallsBack(clicked) == ~clicked

\* _goto_next_page: what it returns (ok, page), whether it raised instead, and
\* how it moved: clicked (a 'More Reviews' link was clicked), nav "link" (it
\* returned from the click) or "url" (driver.get of ?p=param)
_goto_next_page(in) ==
    LET clicked == in.find_ok /\ ClickMoreReviews(in.links)
    IN  IF ~FallsBack(clicked)
        THEN [raised |-> FALSE, ok |-> TRUE, page |-> NextPage(in.page),
              clicked |-> clicked, nav |-> "link", param |-> 0]
        ELSE IF in.get_ok
        THEN [raised |-> FALSE, ok |-> TRUE, page |-> NextPage(in.page),
              clicked |-> clicked, nav |-> "url", param |-> FallbackParam(in.page)]
        ELSE [raised |-> TRUE, ok |-> FALSE, page |-> in.page,
              clicked |-> clicked, nav |-> "url", param |-> FallbackParam(in.page)]

InitGoto ==
    /\ pc = "_goto_next_page"
    /\ arg \in [page : 1..MaxFrom, find_ok : BOOLEAN, links : LinkLists(MaxLinks),
                 get_ok : BOOLEAN]
    /\ res = <<>>
    /\ NoRun

\* lines 399 and 426: ok, page = self._goto_next_page(driver, reviews_url, page)
GotoCall ==
    /\ pc = "_goto_next_page"
    /\ res' = _goto_next_page(arg)
    /\ pc' = "advanced"
    /\ UNCHANGED <<arg, runVars>>

NextGoto == GotoCall

SpecGoto == InitGoto /\ [][NextGoto]_vars

\* ------------------------------------- pipeline.py: run_full_pipeline alone
\* lines 732-738: the phases, in list order
PHASES == <<"Scraping", "Processing", "NLP Analysis", "Statistical Analysis", "Export">>

\* lines 669, 677: the keys of self.results the report looks for, in the
\* order of the phases
RESULT_KEYS == <<"scraping", "processing", "nlp", "statistics", "export">>

\* how a call of a phase function ends: it returns True, returns False, or
\* raises an Exception
Outcomes == {"True", "False", "raises"}

\* lines 81-84: run_scraping_phase returns True at once when force_scrape is
\* off and the raw data exists, before self.results['scraping'] is assigned
Skipped == "skipped"

ReturnsTrue(outcome) == outcome \in {"True", Skipped}

\* lines 108, 156, 227, 285, 563: a phase stores its entry in self.results
\* just before its return True; the return at line 84 stores none
Stores(outcome) == outcome = "True"

InitPipeline ==
    /\ pc = "phases"
    /\ arg \in [1..Len(PHASES) -> Outcomes \cup {Skipped}]
    /\ \A i \in 2..Len(PHASES) : arg[i] # Skipped
    /\ res = [started |-> <<>>, successful_phases |-> 0, results |-> {},
              report |-> FALSE, completed |-> 0, status |-> "none",
              ret |-> "none"]
    /\ NoRun

\* lines 748-753: the loop is left at the first phase that returns False or raises
PhaseBreakOnRaise(outcome) == outcome = "raises"

PhaseBreak(outcome) == ~ReturnsTrue(outcome)

\* lines 742-753: one turn of the loop over phases
RunPhase ==
    /\ pc = "phases"
    /\ Len(res.started) < Len(PHASES)
    /\ \E i \in {Len(res.started) + 1} :
          /\ res' = [res EXCEPT
                       !.started = Append(@, PHASES[i]),
                       !.successful_phases = IF ReturnsTrue(arg[i]) THEN @ + 1 ELSE @,
                       !.results = IF Stores(arg[i])
                                   THEN @ \cup {RESULT_KEYS[i]} ELSE @]
          /\ pc' = IF PhaseBreak(arg[i]) \/ i = Len(PHASES) THEN "report" ELSE "phases"
    /\ UNCHANGED <<arg, runVars>>

\* lines 755-763 with 668-673: the report is generated and written; it
\* counts the keys present in self.results
WriteReport ==
    /\ pc = "report"
    /\ LET n == Cardinality({i \in 1..Len(RESULT_KEYS) : RESULT_KEYS[i] \in res.results})
       IN  res' = [res EXCEPT !.report = TRUE,
                              !.completed = n,
                              !.status = IF n = Len(RESULT_KEYS)
                                         THEN "SUCCESS" ELSE "PARTIAL"]
    /\ pc' = "status"
    /\ UNCHANGED <<arg, runVars>>

\* lines 766-777
PipelineReturn ==
    /\ pc = "status"
    /\ res' = [res EXCEPT !.ret = IF res.successful_phases = Len(PHASES)
                                  THEN "True" ELSE "False"]
    /\ pc' = "done"
    /\ UNCHANGED <<arg, runVars>>

NextPipeline ==
    \/ RunPhase
    \/ WriteReport
    \/ PipelineReturn

SpecPipeline == InitPipeline /\ [][NextPipeline]_vars

\* ------------------- click_all_read_more and _expand_review_in_block alone
\* line 147: for _ in range(3)
PASSES == 3

MaxButtons == 2

\* how the handling of one control ends: "click" (btn.click() worked), "js"
\* (it raised and the script click worked), "fail" (both raised), "scroll"
\* (scrollIntoView raised before any click)
ButtonOutcomes == {"click", "js", "fail", "scroll"}

RECURSIVE ButtonLists(_)
ButtonLists(n) ==
    IF n = 0 THEN {<<>>}
    ELSE ButtonLists(n - 1)
         \cup {Append(bs, o) : bs \in {x \in ButtonLists(n - 1) : Len(x) = n - 1},
                               o \in ButtonOutcomes}

\* the count of a pass that gives up at the first control it cannot click
RECURSIVE ClickedUntilFailure(_)
ClickedUntilFailure(buttons) ==
    IF buttons = <<>> THEN 0
    ELSE IF Head(buttons) \in {"click", "js"}
         THEN 1 + ClickedUntilFailure(Tail(buttons))
         ELSE 0

\* lines 150-159: clicked_round after the loop over buttons
RECURSIVE ClickedRound(_)
ClickedRound(buttons) ==
    IF buttons = <<>> THEN 0
    ELSE (IF Head(buttons) \in {"click", "js"} THEN 1 ELSE 0)
         + ClickedRound(Tail(buttons))

InitExpand ==
    /\ pc \in {"click_all_read_more", "_expand_review_in_block"}
    /\ arg = [scope |-> IF pc = "click_all_read_more" THEN "page" ELSE "block"]
    /\ res = [passes |-> <<>>, total_clicked |-> 0, ret |-> [pending |-> TRUE]]
    /\ NoRun

\* lines 147-163: one pass of click_all_read_more over the anchors it finds
ExpandPass ==
    /\ pc = "click_all_read_more"
    /\ Len(res.passes) < PASSES
    /\ \E buttons \in ButtonLists(MaxButtons) :
          /\ res' = [res EXCEPT
                       !.passes = Append(@, buttons),
                       !.total_clicked = @ + ClickedRound(buttons)]
          /\ pc' = IF ClickedRound(buttons) = 0 \/ Len(res.passes) + 1 = PASSES
                   THEN "return total_clicked"
                   ELSE "click_all_read_more"
    /\ UNCHANGED <<arg, runVars>>

\* line 149: find_elements is outside every try; when it raises the call ends
\* with the exception and returns nothing
ExpandFindRaises ==
    /\ pc = "click_all_read_more"
    /\ Len(res.passes) < PASSES
    /\ pc' = "find_elements raised"
    /\ UNCHANGED <<arg, res, runVars>>

\* line 164
ExpandReturn ==
    /\ pc = "return total_clicked"
    /\ res' = [res EXCEPT !.ret = [value |-> res.total_clicked]]
    /\ pc' = "expanded"
    /\ UNCHANGED <<arg, runVars>>

\* lines 167-201: _expand_review_in_block goes once over the toggles of its six
\* selectors, clicks each by script (no native click: "click" does not occur),
\* counts nothing and ends without a return statement
ExpandBlock ==
    /\ pc = "_expand_review_in_block"
    /\ \E buttons \in {bs \in ButtonLists(MaxButtons) :
                          \A k \in 1..Len(bs) : bs[k] # "click"} :
          res' = [res EXCEPT !.passes = Append(@, buttons), !.ret = None]
    /\ pc' = "expanded"
    /\ UNCHANGED <<arg, runVars>>

NextExpand ==
    \/ ExpandPass
    \/ ExpandFindRaises
    \/ ExpandReturn
    \/ ExpandBlock

SpecExpand == InitExpand /\ [][NextExpand]_vars

\* ---------------- two calls of scrape_reviews_for_series, run side by side
\* Everything a call works on is a local of the call (lines 369-371); the
\* Scraper object holds headless and delay only, which no call assigns.
\* res.sessions is the browsers started so far, res.run[r] the locals of run r.
Runs == 1..2

MaxPairTarget == 2

\* the listing of a series: how many review blocks its pages 1, 2, ... hold
\* (each block a review that parses); the pages after the last hold none
PairListings == {<<>>, <<2>>, <<1, 1>>, <<0, 2>>}

BlocksAt(pages, p) == IF p \in 1..Len(pages) THEN pages[p] ELSE 0

\* line 48: webdriver.Chrome(options=opts) starts a browser of its own
NewSessionReused(sessions) == 1

NewSession(sessions) == Len(sessions) + 1

InitPair ==
    /\ pc = "runs"
    /\ arg \in [Runs -> [target : 1..MaxPairTarget, listing : PairListings]]
    /\ res = [sessions |-> <<>>,
              run |-> [r \in Runs |-> [at |-> "start", driver |-> 0, page |-> 0,
                                       consecutive_empty |-> 0, reviews |-> <<>>]]]
    /\ NoRun

\* run r operates on the session: users and late record who did, and whether
\* the session was closed already
Used(s, r) == [s EXCEPT !.users = @ \cup {r}, !.late = @ \/ s.state = "closed"]

\* the row parsed from block k of the page the session shows, line 413-418
PairRow(s, p, k) == [series |-> s.series, shown |-> s.at, k |-> k, page_number |-> p]

\* lines 369-371
PairGetDriver ==
    \E r \in Runs :
        /\ res.run[r].at = "start"
        /\ res' = [res EXCEPT
                     !.sessions = Append(@, [state |-> "open", series |-> 0, at |-> 0,
                                             opener |-> r, users |-> {}, late |-> FALSE]),
                     !.run[r] = [at |-> "get", driver |-> NewSession(res.sessions),
                                 page |-> 1, consecutive_empty |-> 0,
                                 reviews |-> <<>>]]
        /\ UNCHANGED <<pc, arg, runVars>>

\* lines 376-380: driver.get(reviews_url); on a closed session it raises and
\* the run goes to its finally
PairOpen ==
    \E r \in Runs :
        LET d == res.run[r].driver
            s == res.sessions[d]
        IN  /\ res.run[r].at = "get"
            /\ res' = [res EXCEPT
                         !.sessions[d] = IF s.state = "open"
                                         THEN [Used(s, r) EXCEPT !.series = r, !.at = 1]
                                         ELSE Used(s, r),
                         !.run[r].at = IF s.state = "open" THEN "while" ELSE "finally"]
            /\ UNCHANGED <<pc, arg, runVars>>

\* line 383
PairWhile ==
    \E r \in Runs :
        /\ res.run[r].at = "while"
        /\ res' = [res EXCEPT
                     !.run[r].at = IF WhileCond(Len(res.run[r].reviews), arg[r].target,
                                                res.run[r].page)
                                   THEN "find" ELSE "finally"]
        /\ UNCHANGED <<pc, arg, runVars>>

\* lines 387-423: expand, locate the blocks of the page the session shows,
\* then the empty branch or the loop over the blocks
PairFind ==
    \E r \in Runs :
        LET me == res.run[r]
            d == me.driver
            s == res.sessions[d]
            n == IF s.series \in Runs THEN BlocksAt(arg[s.series].listing, s.at) ELSE 0
            room == arg[r].target - Len(me.reviews)
            taken == IF n < room THEN n ELSE room
            rows == me.reviews \o [k \in 1..taken |-> PairRow(s, me.page, k)]
        IN  /\ me.at = "find"
            /\ res' =
                 IF s.state # "open"
                 THEN [res EXCEPT !.sessions[d] = Used(s, r), !.run[r].at = "finally"]
                 ELSE IF n = 0
                 THEN [res EXCEPT
                         !.sessions[d] = Used(s, r),
                         !.run[r].consecutive_empty = @ + 1,
                         !.run[r].at = IF StreakBreak(me.consecutive_empty + 1)
                                       THEN "finally" ELSE "advance"]
                 ELSE [res EXCEPT
                         !.sessions[d] = Used(s, r),
                         !.run[r].consecutive_empty = StreakReset(@),
                         !.run[r].reviews = rows,
                         !.run[r].at = IF AfterBreak(Len(rows), arg[r].target)
                                       THEN "finally" ELSE "advance"]
            /\ UNCHANGED <<pc, arg, runVars>>

\* lines 399, 426 with 337-362: the click moves the session one page on, the
\* fallback loads ?p=page+1 of the run's own URL; page = page + 1 either way
PairAdvance ==
    \E r \in Runs, tier \in {"link", "url"} :
        LET me == res.run[r]
            d == me.driver
            s == res.sessions[d]
        IN  /\ me.at = "advance"
            /\ res' =
                 IF s.state # "open"
                 THEN [res EXCEPT !.sessions[d] = Used(s, r), !.run[r].at = "finally"]
                 ELSE [res EXCEPT
                         !.sessions[d] =
                             IF tier = "link"
                             THEN [Used(s, r) EXCEPT !.at = @ + 1]
                             ELSE [Used(s, r) EXCEPT !.series = r,
                                                     !.at = FallbackParam(me.page)],
                         !.run[r].page = NextPage(@),
                         !.run[r].at = "while"]
            /\ UNCHANGED <<pc, arg, runVars>>

\* lines 432-436: driver.quit() in the finally, then return reviews
PairQuit ==
    \E r \in Runs :
        LET d == res.run[r].driver
            s == res.sessions[d]
        IN  /\ res.run[r].at = "finally"
            /\ res' = [res EXCEPT
                         !.sessions[d] = [s EXCEPT !.state = Quit(s.state),
                                                   !.users = @ \cup {r}],
                         !.run[r].at = "returned"]
            /\ UNCHANGED <<pc, arg, runVars>>

NextPair ==
    \/ PairGetDriver
    \/ PairOpen
    \/ PairWhile
    \/ PairFind
    \/ PairAdvance
    \/ PairQuit

SpecPair == InitPair /\ [][NextPair]_vars

\* ------------------------------------------------------------------ claims
Ended == pc \in {"returned", "raised"}

\* a block whose body text, as the page shows it now, passes the length gate
ValidNow(b) == TLen(Strip(b.text)) >= MIN_TEXT_LEN

RECURSIVE ValidCount(_)
ValidCount(d) ==
    IF d = <<>> THEN 0
    ELSE (IF ValidNow(Head(d)) THEN 1 ELSE 0) + ValidCount(Tail(d))

NoDuplicate(rs) ==
    \A i, j \in 1..Len(rs) : i # j => rs[i].block_id # rs[j].block_id

\* C1: in every state of a run, and in the list it returns, the number of
\* accumulated records is between 0 and target_count; it never exceeds it.
C1_RecordsWithinTarget ==
    /\ 0 <= Len(reviews) /\ Len(reviews) <= target
    /\ 0 <= Len(ret) /\ Len(ret) <= target

\* the run has returned a full list from a page that still held a block which
\* passes the gate and was never handed to the parser
C1_Witness ==
    /\ pc = "returned"
    /\ Len(ret) = target
    /\ idx <= Len(blocks)
    /\ ValidNow(dom[blocks[idx]])

\* C2: a run that has returned stopped for TargetReached if and only if it
\* returned exactly target_count records.
C2_TargetReachedIffFull ==
    pc = "returned" => (reason = "TargetReached" <=> Len(ret) = target)

\* a run ended by a fault after it had accumulated a record, short of the target
C2_Witness ==
    /\ pc = "returned"
    /\ reason = "SessionError"
    /\ Len(ret) > 0
    /\ Len(ret) < target

\* C3 (as claimed): every accumulated record has a stored body text of length
\* at least 50.
C3_StoredBodyAtLeast50 ==
    \A i \in 1..Len(reviews) : TLen(reviews[i].review_text) >= MIN_TEXT_LEN

\* C4: every harvest run eventually ends, whatever the pages hold.
C4_RunTerminates == <>Ended

\* a run that found a record, never enough of them, and was ended by the page cap
C4_Witness ==
    /\ pc = "returned"
    /\ reason = "MaxPagesReached"
    /\ page = MAX_PAGES + 1
    /\ Len(ret) > 0
    /\ Len(ret) < target

\* C5: once the streak of empty pages equals the cap (12) the run has left its
\* loop for EmptyPageStreak, and current_page is at most the page cap plus the
\* streak length.
C5_StreakEndsRun ==
    consecutive_empty >= MAX_EMPTY_PAGES =>
        /\ pc \in {"finally", "return", "returned", "raised"}
        /\ reason = "EmptyPageStreak"
        /\ consecutive_empty = MAX_EMPTY_PAGES
        /\ page <= MAX_PAGES + MAX_EMPTY_PAGES

\* a run that returned after twelve empty pages in a row, the last of them late
\* in the listing
C5_Witness ==
    /\ pc = "returned"
    /\ reason = "EmptyPageStreak"
    /\ consecutive_empty = MAX_EMPTY_PAGES
    /\ page > MAX_EMPTY_PAGES

\* C6: no run ends with the session it acquired still open.
C6_SessionClosedOnExit ==
    pc \in {"return", "returned", "raised"} => session # "open"

\* a run aborted by a fault inside the paging loop has ended with its session closed
C6_Witness ==
    /\ pc = "returned"
    /\ reason = "SessionError"
    /\ advanced
    /\ session = "closed"

\* C7 (as claimed): no fault of one series' harvest ends the batch.
C7_BatchSurvivesFaults == pc # "crashed"

\* C8: a run aborted by a fault returns exactly the records it held when the
\* fault was raised.
C8_PartialResultsKept ==
    (pc = "returned" /\ reason = "SessionError") => ret = atFault

\* a run aborted during a page advance returns the record it had
C8_Witness ==
    /\ pc = "returned"
    /\ reason = "SessionError"
    /\ advanced
    /\ page = 1
    /\ Len(ret) > 0

\* page 1 has been located and holds at least target_count blocks that pass
\* the gate
ScenarioA == page = 1 /\ blocks # <<>> /\ ValidCount(dom) >= target

\* C9: when page 1 yields at least target_count valid blocks, the run leaves
\* the parse loop with exactly target_count records, goes from there to its
\* end for TargetReached without calling _goto_next_page, and returns
\* target_count records with current_page still 1.
C9_ScenarioA ==
    /\ [](pc = "after" /\ ScenarioA => Len(reviews) = target)
    /\ [][pc = "after" /\ ScenarioA =>
            pc' = "finally" /\ reason' = "TargetReached" /\ page' = 1 /\ ~advanced']_vars
    /\ [](pc = "returned" /\ ScenarioA /\ ~advanced =>
            Len(ret) = target /\ reason = "TargetReached")

\* a run that returned from page 1 with a full list, page 1 holding more valid
\* blocks than the target
C9_Witness ==
    /\ pc = "returned"
    /\ ScenarioA
    /\ ~advanced
    /\ ValidCount(dom) > target
    /\ Len(ret) = target
    /\ reason = "TargetReached"

\* C10 (as claimed): when the listing has shown fewer reviews than
\* target_count, a run that was not aborted stops for MaxPagesReached or
\* EmptyPageStreak, with at most as many records as reviews shown and no
\* review accumulated twice.
C10_ScenarioB ==
    (pc = "returned" /\ served < target /\ reason # "SessionError") =>
        /\ reason \in {"MaxPagesReached", "EmptyPageStreak"}
        /\ Len(ret) <= served
        /\ NoDuplicate(ret)

\* -------------------------------------------------------------------- C11
\* the first read is cut short: it carries the marker "..." and is under
\* MARKER_UNDER characters
Truncated(b) == HasMarker(Strip(b.text)) /\ TLen(Strip(b.text)) < MARKER_UNDER

\* the block's toggle reveals a longer text that passes the gate
Revealed(b) ==
    /\ b.ctl # "none"
    /\ TLen(Strip(b.full)) > TLen(Strip(b.text))
    /\ TLen(Strip(b.full)) >= MIN_TEXT_LEN

\* C11 (Scenario C): a block whose first-read body is short and carries the
\* truncation marker is expanded by the parser (its toggle is clicked, so the
\* page then shows the full text); when the click reveals the longer text the
\* parser's record carries that text (cleaned), no record being returned only
\* when the score scan raises; a first read of under 50 characters is never
\* what it returns.
C11_ScenarioC ==
    \A i \in 1..Len(res) :
        LET b == res[i].before
        IN  Truncated(b) =>
              /\ (res[i].clicked /\ b.ctl # "none" => res[i].block.text = b.full)
              /\ (res[i].clicked /\ Revealed(b) =>
                     /\ res[i].row = None => ScanScores(b.scores) = ScoreRaised
                     /\ res[i].row # None =>
                           res[i].row.review_text = clean_review_text(Strip(b.full)))
              /\ (TLen(Strip(b.text)) < MIN_TEXT_LEN /\ res[i].row # None =>
                     res[i].row.review_text # clean_review_text(Strip(b.text)))

\* "Great show..." (13 characters) was parsed and the 600-character text came back
C11_Witness ==
    /\ Len(res) >= 1
    /\ Truncated(res[1].before)
    /\ TLen(Strip(res[1].before.text)) = 13
    /\ res[1].clicked
    /\ res[1].row # None
    /\ TLen(res[1].row.review_text) = 600
\* -------------------------------------------------------------------- C12
\* C12 (Scenario D): the locator returns exactly the result of the first of
\* its four queries, in their fixed order, that finds an element, and nothing
\* when none does; it never joins the results of several queries.
C12_ScenarioD ==
    pc = "located" =>
        IF \A k \in 1..4 : arg[k] = <<>>
        THEN res = <<>>
        ELSE \E k \in 1..4 :
                /\ arg[k] # <<>>
                /\ \A j \in 1..(k - 1) : arg[j] = <<>>
                /\ res = arg[k]

\* the first query finds nothing, the third finds three elements and the
\* fourth finds others: the three are returned
C12_Witness ==
    /\ pc = "located"
    /\ arg[1] = <<>>
    /\ arg[2] = <<>>
    /\ Len(arg[3]) = 3
    /\ arg[4] # <<>>
    /\ arg[4] # arg[3]
    /\ res = arg[3]
\* -------------------------------------------------------------------- C13
\* no 'More Reviews' link is there, or none of those there is displayed
NoProgressiveControl(in) ==
    /\ in.find_ok
    /\ \A i \in 1..Len(in.links) : in.links[i].shown = "no"

\* C13 (Scenario E): called on a page with no progressive control, or with none
\* displayed, _goto_next_page navigates to the listing's URL with the page
\* parameter current page + 1, and on the navigation's return it returns
\* (True, current page + 1).
C13_ScenarioE ==
    pc = "advanced" /\ NoProgressiveControl(arg) =>
        /\ res.nav = "url"
        /\ res.param = arg.page + 1
        /\ (arg.get_ok => ~res.raised /\ res.ok /\ res.page = arg.page + 1)

\* an undisplayed link only: the URL of the next page was requested
C13_Witness ==
    /\ pc = "advanced"
    /\ Len(arg.links) = 1
    /\ NoProgressiveControl(arg)
    /\ arg.get_ok
    /\ res.nav = "url"
    /\ res.ok
    /\ res.page = arg.page + 1
\* -------------------------------------------------------------------- C14
\* a static block: no click and no script reveals anything more in it
Static(b) == b.ctl = "none" \/ b.text = b.full

C15_PageNeverLowered ==
    /\ [](~advanced => page = 1)
    /\ [][page' >= page]_vars

\* a run that parsed a record, moved on and was then ended by a fault
C15_Witness ==
    /\ pc = "returned"
    /\ reason = "SessionError"
    /\ page > 2
    /\ reviews # <<>>
\* -------------------------------------------------------------------- C16
\* C16: an iteration whose locator call yields a block sets consecutive_empty
\* to 0, and it is still 0 when the blocks have been parsed, whether or not a
\* record was appended; an iteration whose locator call yields none adds
\* exactly 1; nothing else changes the counter.
C16_StreakCounter ==
    /\ [][pc = "find" /\ pc' # "except" =>
            IF blocks' # <<>> THEN consecutive_empty' = 0
            ELSE consecutive_empty' = consecutive_empty + 1]_vars
    /\ [][pc # "find" => consecutive_empty' = consecutive_empty]_vars
    /\ [](pc \in {"parse", "after"} => consecutive_empty = 0)

\* a later page whose blocks were all rejected: nothing appended, counter 0
C16_Witness ==
    /\ pc = "after"
    /\ page > 1
    /\ blocks # <<>>
    /\ reviews = <<>>
    /\ consecutive_empty = 0
\* -------------------------------------------------------------------- C17
\* C17: run_full_pipeline starts its phases in the order Scraping, Processing,
\* NLP Analysis, Statistical Analysis, Export, a phase only after every
\* earlier one returned True; whatever the phases did, it has written the
\* report when it returns, and it returns True exactly when all five phases
\* returned True.
C17_PipelinePhases ==
    /\ \A i \in 1..Len(res.started) :
          /\ res.started[i] = PHASES[i]
          /\ \A j \in 1..(i - 1) : ReturnsTrue(arg[j])
    /\ pc \in {"report", "status", "done"} =>
          \/ Len(res.started) = Len(PHASES)
          \/ ~ReturnsTrue(arg[Len(res.started)])
    /\ pc = "done" =>
          /\ res.report
          /\ res.ret = "True" <=> \A i \in 1..Len(PHASES) : ReturnsTrue(arg[i])

\* the third phase raised: two phases were never started, the report was
\* written and False returned
C17_Witness ==
    /\ pc = "done"
    /\ arg[1] = "True"
    /\ arg[2] = "True"
    /\ arg[3] = "raises"
    /\ res.started = <<"Scraping", "Processing", "NLP Analysis">>
    /\ res.report
    /\ res.ret = "False"
\* -------------------------------------------------------------------- C18
\* C18 (as claimed): when the blocks of the page at the cap have been
\* processed without reaching the target, _goto_next_page is not called and
\* the run's page number does not pass the cap: no page beyond MAX_PAGES is
\* requested.  (blocks # <<>>: the last locator call found blocks, so the step
\* towards _goto_next_page is the one at line 426.)
C18_NoAdvanceAtCap ==
    blocks # <<>> =>
        /\ pc = "advance" => page < MAX_PAGES
        /\ page <= MAX_PAGES
\* -------------------------------------------------------------------- C19
\* the list holds target_reviews records
Full == Len(reviews) >= target

\* C19: from the moment the list is full no step parses a block (the list and
\* the page stay as they are, so no toggle of a block is clicked), no step
\* calls _goto_next_page, and the run leaves the block loop and the page loop
\* for its end with the reason TargetReached.
C19_StopsWhenFull ==
    /\ [][Full => reviews' = reviews /\ dom' = dom /\ idx' = idx
                   /\ pc' # "advance" /\ advanced' = advanced]_vars
    /\ [](Full => pc \in {"parse", "after", "finally", "return", "returned", "raised"})
    /\ [][Full /\ pc = "parse" => pc' = "after"]_vars
    /\ [][Full /\ pc = "after" => pc' = "finally" /\ reason' = "TargetReached"]_vars

\* a run that returned full from page 1 and left a located block unparsed, its
\* text still cut short behind its toggle
C19_Witness ==
    /\ pc = "returned"
    /\ Full
    /\ reason = "TargetReached"
    /\ ~advanced
    /\ idx <= Len(blocks)
    /\ dom[blocks[idx]].text # dom[blocks[idx]].full
\* -------------------------------------------------------------------- C20
\* some label of the block says the phrase
Said(tags, phrase) == \E k \in 1..Len(tags) : tags[k].ok /\ Contains(tags[k].text, phrase)

\* C20 (as claimed): the tag of a record is the phrase of highest priority,
\* Not Recommended before Mixed Feelings before Recommended, among those the
\* block's labels say, wherever in the document each label stands; it is
\* empty only when no label says any of them.
C20_TagPriority ==
    \A i \in 1..Len(res) :
        res[i].row # None =>
            LET tags == res[i].before.tags
            IN  res[i].row.recommendation =
                    IF Said(tags, "Not Recommended") THEN "Not Recommended"
                    ELSE IF Said(tags, "Mixed Feelings") THEN "Mixed Feelings"
                    ELSE IF Said(tags, "Recommended") THEN "Recommended"
                    ELSE ""

\* the labels that decide: read without failure, none before them failing, and
\* saying one of the three phrases
Deciding(tags) ==
    { k \in 1..Len(tags) :
        /\ \A j \in 1..k : tags[j].ok
        /\ \E ph \in {"Not Recommended", "Mixed Feelings", "Recommended"} :
              Contains(tags[k].text, ph) }

\* C20 (amended): the tag is decided by the first label, in document order,
\* that says one of the three phrases; the priority Not Recommended before
\* Mixed Feelings before Recommended holds among the phrases of that one
\* label, and later labels are not looked at.  The tag is empty when no label
\* says a phrase, and when reading a label fails before one that does.
C20_FirstLabelDecides ==
    \A i \in 1..Len(res) :
        res[i].row # None =>
            LET tags == res[i].before.tags
                rec == res[i].row.recommendation
            IN  IF Deciding(tags) = {} THEN rec = ""
                ELSE LET t == tags[CHOOSE k \in Deciding(tags) :
                                     \A j \in Deciding(tags) : k <= j].text
                     IN  /\ rec = "Not Recommended" <=> Contains(t, "Not Recommended")
                         /\ rec = "Mixed Feelings" <=>
                               /\ ~Contains(t, "Not Recommended")
                               /\ Contains(t, "Mixed Feelings")
                         /\ rec = "Recommended" <=>
                               /\ ~Contains(t, "Not Recommended")
                               /\ ~Contains(t, "Mixed Feelings")
                         /\ rec # ""

\* a first label that says Recommended and a second that says Not Recommended:
\* the record's tag is Recommended
C20_Witness ==
    /\ Len(res) >= 1
    /\ res[1].row # None
    /\ Len(res[1].before.tags) = 2
    /\ res[1].before.tags[1] = Label(TRUE, <<"Recommended">>)
    /\ res[1].before.tags[2] = Label(TRUE, <<"Not Recommended">>)
    /\ res[1].row.recommendation = "Recommended"
\* -------------------------------------------------------------------- C21
\* the tokens of the score elements found, in selector order
RECURSIVE ScoreTokens(_)
ScoreTokens(scores) ==
    IF scores = <<>> THEN <<>>
    ELSE (IF Head(scores).found THEN Head(scores).toks ELSE <<>>)
         \o ScoreTokens(Tail(scores))

InRange(tok) == tok.digit /\ tok.int_ok /\ tok.val \in 1..10

\* C21: the score of a record is absent or an integer in 1..10: it is the
\* value of the first all-digit token in 1..10 met when the score elements
\* are scanned in selector order, tokens out of range being passed over, and
\* it is absent when no element holds such a token.
C21_ScoreInRange ==
    \A i \in 1..Len(res) :
        res[i].row # None =>
            LET toks == ScoreTokens(res[i].before.scores)
                hits == {k \in 1..Len(toks) : InRange(toks[k])}
                score == res[i].row.user_score
            IN  /\ score = NoScore \/ score \in 1..10
                /\ IF hits = {} THEN score = NoScore
                   ELSE score = toks[CHOOSE k \in hits : \A j \in hits : k <= j].val

\* the first selector found nothing; the second element reads "x 11 0 10 3":
\* 11 and 0 were passed over and the score is 10
C21_Witness ==
    /\ Len(res) >= 1
    /\ res[1].row # None
    /\ Len(res[1].before.scores) = 2
    /\ ~res[1].before.scores[1].found
    /\ Len(res[1].before.scores[2].toks) = 5
    /\ res[1].before.scores[2].toks[2].val = 11
    /\ res[1].row.user_score = 10
\* -------------------------------------------------------------------- C22
\* C22 (as claimed): a failure while the score, the tag or the date is read
\* leaves that field absent in the record and never rejects the block: the
\* parser returns no record only when the body text, after expansion, is
\* empty or under 50 characters.
C22_OnlyGateRejects ==
    \A i \in 1..Len(res) :
        /\ res[i].row = None =>
              /\ TLen(Strip(res[i].before.text)) < MIN_TEXT_LEN
              /\ TLen(Strip(res[i].block.text)) < MIN_TEXT_LEN
        /\ res[i].row # None =>
              /\ (\A k \in 1..Len(res[i].before.scores) : ~res[i].before.scores[k].found)
                    => res[i].row.user_score = NoScore
              /\ (\A k \in 1..Len(res[i].before.tags) : ~res[i].before.tags[k].ok)
                    => res[i].row.recommendation = ""
              /\ (\A k \in 1..Len(res[i].before.dates) : ~res[i].before.dates[k].found)
                    => res[i].row.review_date = ""
\* -------------------------------------------------------------------- C23
\* C23: the parser expands a block exactly when its first read is empty, or
\* carries the marker and is under 400 characters, or is under 120
\* characters: then the toggle is clicked (the page shows what the click
\* reveals), otherwise the block is left as it was; the text kept after the
\* re-read is never shorter than the first read, and it is the text the
\* record carries (cleaned) or the gate rejects.
C23_ExpansionTrigger ==
    \A i \in 1..Len(res) :
        LET b == res[i].before
            t1 == Strip(b.text)
            t2 == Strip(res[i].block.text)
            kept == IF TLen(t2) > TLen(t1) THEN t2 ELSE t1
            trigger == \/ t1 = <<>>
                       \/ HasMarker(t1) /\ TLen(t1) < MARKER_UNDER
                       \/ TLen(t1) < EXPAND_UNDER
        IN  /\ trigger /\ res[i].clicked /\ b.ctl # "none" => res[i].block.text = b.full
            /\ ~trigger => res[i].block = b
            /\ TLen(kept) >= TLen(t1)
            /\ res[i].row # None => res[i].row.review_text = clean_review_text(kept)
            /\ res[i].row = None /\ ScanScores(b.scores) # ScoreRaised =>
                   TLen(kept) < MIN_TEXT_LEN

\* a first read of 203 characters with the marker was expanded and the record
\* carries the 600 characters the click revealed
C23_Witness ==
    /\ Len(res) >= 1
    /\ res[1].clicked
    /\ TLen(Strip(res[1].before.text)) = 203
    /\ HasMarker(Strip(res[1].before.text))
    /\ res[1].block.text = res[1].before.full
    /\ res[1].row # None
    /\ TLen(res[1].row.review_text) = 600
\* -------------------------------------------------------------------- C24
\* C24: _prepare_page_filters is called once in a run, after the listing has
\* been opened and before the first call of _find_review_blocks, and never
\* again; its steps are gone through in order, the select, the 'All' link,
\* the spoiler buttons, each whatever the steps before it did, and no step's
\* failure ends the call or reaches the run's handler.
C24_FiltersOnceAllSteps ==
    /\ [](filtered.calls <= 1)
    /\ [](pc \in {"get_driver", "open", "filter_select"} => filtered.calls = 0)
    /\ [](pc \in {"filter_all", "filter_spoilers", "render", "while", "expand", "find",
                  "parse", "after", "advance"} => filtered.calls = 1)
    /\ [](/\ pc = "filter_all" => Len(filtered.steps) = 1
          /\ pc = "filter_spoilers" => Len(filtered.steps) = 2
          /\ pc = "render" => Len(filtered.steps) = 3)
    /\ [][/\ pc = "filter_select" => pc' = "filter_all"
          /\ pc = "filter_all" => pc' = "filter_spoilers"
          /\ pc = "filter_spoilers" => pc' = "render"
          /\ pc = "render" => pc' = "while"]_vars

\* all three steps failed and the run goes on to its first page
C24_Witness ==
    /\ pc = "render"
    /\ filtered.calls = 1
    /\ filtered.steps = <<"raises", "raises", "raises">>
    /\ dom # <<>>
\* -------------------------------------------------------------------- C25
\* the controls of a pass that were clicked, by the button's own click or by
\* the script
Successes(buttons) ==
    Cardinality({k \in 1..Len(buttons) : buttons[k] \in {"click", "js"}})

RECURSIVE SuccessesOver(_)
SuccessesOver(passes) ==
    IF passes = <<>> THEN 0
    ELSE Successes(Head(passes)) + SuccessesOver(Tail(passes))

\* at most three passes, none after a pass without a click
PassesBounded ==
    /\ Len(res.passes) <= PASSES
    /\ \A k \in 1..(Len(res.passes) - 1) : Successes(res.passes[k]) > 0

Clickable(l) == l.shown = "yes" /\ l.click # "raises"

\* C26 (as claimed): a call uses one tier only: after a click on a displayed
\* link it returns (True, page + 1) without the URL navigation, and the URL
\* navigation happens only when the page has no link that is displayed and
\* can be clicked; either way the page returned is page + 1.
C26_OneTier ==
    pc = "advanced" =>
        /\ ~(res.clicked /\ res.nav = "url")
        /\ res.clicked => ~res.raised /\ res.ok /\ res.page = arg.page + 1
        /\ (res.nav = "url" /\ arg.find_ok =>
               \A k \in 1..Len(arg.links) : ~Clickable(arg.links[k]))
        /\ ~res.raised => res.ok /\ res.page = arg.page + 1

\* tier 1 ends at link k: it is the first link that is not just undisplayed
TierOneEndsAt(in, k) ==
    /\ k \in 1..Len(in.links)
    /\ in.links[k].shown # "no"
    /\ \A j \in 1..(k - 1) : in.links[j].shown = "no"

\* C26 (amended): a call uses one tier only: after a click on a displayed
\* link it returns (True, page + 1) without the URL navigation.  Tier 1 ends
\* at the first link that is displayed or whose display test fails: the URL
\* navigation happens exactly when the search for links failed, or there is
\* no such link, or that link could not be clicked, whatever the links after
\* it would have allowed.  Whenever the call returns, the page returned is
\* page + 1.
C26_OneTierFirstLink ==
    pc = "advanced" =>
        /\ ~(res.clicked /\ res.nav = "url")
        /\ res.clicked => ~res.raised /\ res.ok /\ res.page = arg.page + 1
        /\ res.nav = "url" <=>
               \/ ~arg.find_ok
               \/ \A k \in 1..Len(arg.links) : arg.links[k].shown = "no"
               \/ \E k \in 1..Len(arg.links) :
                     TierOneEndsAt(arg, k) /\ ~Clickable(arg.links[k])
        /\ res.nav = "link" <=> res.clicked
        /\ ~res.raised => res.ok /\ res.page = arg.page + 1

\* the first link is displayed and cannot be clicked, the second could be:
\* the call went to the URL of the next page
C26_Witness ==
    /\ pc = "advanced"
    /\ arg.find_ok
    /\ Len(arg.links) = 2
    /\ arg.links[1].shown = "yes"
    /\ ~Clickable(arg.links[1])
    /\ Clickable(arg.links[2])
    /\ res.nav = "url"
    /\ ~res.clicked
    /\ res.page = arg.page + 1
\* -------------------------------------------------------------------- C27
\* what the run of series r returns when it runs alone, from page p with
\* streak c and the rows recs: lines 383-428 on a session nobody else uses
RECURSIVE Alone(_, _, _, _)
Alone(r, p, c, recs) ==
    IF ~WhileCond(Len(recs), arg[r].target, p)
    THEN recs
    ELSE LET n == BlocksAt(arg[r].listing, p)
             room == arg[r].target - Len(recs)
             taken == IF n < room THEN n ELSE room
             rows == recs \o [k \in 1..taken |->
                                [series |-> r, shown |-> p, k |-> k, page_number |-> p]]
         IN  IF n = 0
             THEN IF StreakBreak(c + 1) THEN recs ELSE Alone(r, NextPage(p), c + 1, recs)
             ELSE IF AfterBreak(Len(rows), arg[r].target)
             THEN rows
             ELSE Alone(r, NextPage(p), 0, rows)

\* C27: two runs side by side share nothing: each run starts one session of
\* its own, a session is operated on by the run that started it only and
\* only while it is open, the state of a run is page 1, streak 0 and no
\* records when it starts, and whatever the interleaving each run returns
\* the records it returns when it runs alone.
C27_RunsIndependent ==
    pc = "runs" =>
        /\ Len(res.sessions) = Cardinality({r \in Runs : res.run[r].at # "start"})
        /\ \A r \in Runs : res.run[r].at # "start" =>
               /\ res.run[r].driver \in 1..Len(res.sessions)
               /\ res.sessions[res.run[r].driver].opener = r
        /\ \A d \in 1..Len(res.sessions) :
               /\ res.sessions[d].users \subseteq {res.sessions[d].opener}
               /\ ~res.sessions[d].late
               /\ res.sessions[d].state = "closed" <=>
                      res.run[res.sessions[d].opener].at = "returned"
        /\ \A r \in Runs : res.run[r].at = "get" =>
               /\ res.run[r].page = 1
               /\ res.run[r].consecutive_empty = 0
               /\ res.run[r].reviews = <<>>
        /\ \A r \in Runs : res.run[r].at = "returned" =>
               res.run[r].reviews = Alone(r, 1, 0, <<>>)

\* both runs have returned the records of their second pages, and run 2 had
\* started its session before run 1 started its own
C27_Witness ==
    /\ pc = "runs"
    /\ \A r \in Runs : res.run[r].at = "returned" /\ Len(res.run[r].reviews) = 2
    /\ arg[1].listing = <<1, 1>>
    /\ arg[2].listing = <<0, 2>>
    /\ res.run[2].driver = 1
    /\ res.run[1].driver = 2
    /\ \A r \in Runs : res.run[r].page = 2
    /\ \A d \in 1..2 : res.sessions[d].state = "closed"
\* -------------------------------------------------------------------- C28
\* C28: when run_full_pipeline has returned, the report it wrote says
\* 'Overall Status: SUCCESS' with 'Phases Completed: 5/5' exactly when it
\* returned True, a run whose scraping phase was skipped over existing raw
\* data included.
C28_ReportAgreesWithReturn ==
    pc = "done" =>
        /\ res.status = "SUCCESS" <=> res.ret = "True"
        /\ res.status = "SUCCESS" <=> res.completed = Len(PHASES)
\* -------------------------------------------------------------------- C29
\* rs is the beginning of rs2
Prefix(rs, rs2) == Len(rs) <= Len(rs2) /\ SubSeq(rs2, 1, Len(rs)) = rs

\* C29: the records of a run only grow at the end: every step leaves the
\* records already there in place and unaltered, a step that changes the list
\* is the parse of a block of a non-empty locator result and appends one
\* record whose page_number is the current page; the page_number values lie
\* in 1..MAX_PAGES and never decrease along the list.
C29_AppendOnly ==
    /\ [](\A i \in 1..Len(reviews) :
             /\ reviews[i].page_number \in 1..MAX_PAGES
             /\ \A j \in 1..i : reviews[j].page_number <= reviews[i].page_number)
    /\ [][/\ Prefix(reviews, reviews')
          /\ reviews' # reviews =>
                /\ pc = "parse"
                /\ blocks # <<>>
                /\ Len(reviews') = Len(reviews) + 1
                /\ reviews'[Len(reviews')].page_number = page
                /\ page' = page]_vars

\* two records, the first parsed on page 1 and the second on page 2, after
\* an advance
C29_Witness ==
    /\ Len(reviews) = 2
    /\ reviews[1].page_number = 1
    /\ reviews[2].page_number = 2
    /\ page = 2
    /\ advanced
\* -------------------------------------------------------------------- C30
\* C30: all through a run the streak of empty pages is in 0..MAX_EMPTY_PAGES
\* and the page number in 1..MAX_PAGES + 1, _find_review_blocks is called at
\* most MAX_PAGES times, and the locator call that brings the streak to
\* MAX_EMPTY_PAGES ends the loop: the next step is the finally, with no call
\* of _goto_next_page in between.
C30_CountersBounded ==
    /\ [](/\ consecutive_empty \in 0..MAX_EMPTY_PAGES
          /\ page \in 1..(MAX_PAGES + 1)
          /\ located \in 0..MAX_PAGES)
    /\ [][/\ consecutive_empty' = MAX_EMPTY_PAGES /\ consecutive_empty < MAX_EMPTY_PAGES =>
                /\ pc = "find"
                /\ pc' = "finally"
                /\ reason' = "EmptyPageStreak"
                /\ page' = page
          /\ consecutive_empty = MAX_EMPTY_PAGES => pc' # "advance" /\ page' = page
          /\ located' # located => located' = located + 1 /\ pc = "find"]_vars

\* the twelfth empty page in a row has just been located, on page 12: the run
\* is at its finally and the page number is still 12
C30_Witness ==
    /\ consecutive_empty = MAX_EMPTY_PAGES
    /\ located = MAX_EMPTY_PAGES
    /\ page = MAX_EMPTY_PAGES
    /\ pc = "finally"
    /\ reason = "EmptyPageStreak"
====
